---- MODULE Spec2Model ----
(***************************************************************************)
(* Model of simple_nat.cpp: the NATStore translation table.                *)
(*                                                                         *)
(* A text (std::string) is a sequence of one-character strings, so that    *)
(* the tokenizer, the digit test and the decimal conversion are computed   *)
(* character by character, as the code computes them.                      *)
(***************************************************************************)
EXTENDS Integers, Sequences, FiniteSets, TLC

(***************************************************************************)
(* Bound of the model.                                                     *)
(***************************************************************************)
\* the table holds at most MaxEntries keys
MaxEntries == 2

(***************************************************************************)
(* Program constants.                                                      *)
(***************************************************************************)
\* largest value of int: std::stoi throws std::out_of_range above it
INT_MAX == 2147483647
\* largest port, is_port
MAX_PORT == 65535
\* largest octet, is_ip
MAX_OCTET == 255

\* enum Status {INVALID, OK, NO_MATCH}
INVALID == "INVALID"
OK == "OK"
NO_MATCH == "NO_MATCH"
Status == {INVALID, OK, NO_MATCH}
\* an exception of std::stoi leaves the call: nothing in the program catches
\* it, the process terminates
THROWN == "THROWN"
\* the out-of-bounds read parsed[1] faults
FAULT == "FAULT"

Digits == {"0", "1", "2", "3", "4", "5", "6", "7", "8", "9"}
DigitChar == <<"0", "1", "2", "3", "4", "5", "6", "7", "8", "9">>
DigitVal == [c \in Digits |-> CHOOSE v \in 0..9 : DigitChar[v + 1] = c]

STAR == <<"*">>

(***************************************************************************)
(* Tokenizer.                                                              *)
(***************************************************************************)
\* string::find of a one-character delimiter: the first index at or after
\* i that holds it, 0 for npos
RECURSIVE find_from(_, _, _)
find_from(entry, delimiter, i) ==
  IF i > Len(entry) THEN 0
  ELSE IF entry[i] = delimiter THEN i
  ELSE find_from(entry, delimiter, i + 1)

find(entry, delimiter) == find_from(entry, delimiter, 1)

RECURSIVE parse(_, _)
parse(entry, delimiter) ==
  LET i == find(entry, delimiter) IN
  IF i = 0
  THEN <<entry>>
  ELSE <<SubSeq(entry, 1, i - 1)>>
         \o parse(SubSeq(entry, i + 1, Len(entry)), delimiter)

(***************************************************************************)
(* Numeric checks.  A check that can be left by an exception has three     *)
(* results: "true", "false", "throw".                                      *)
(***************************************************************************)
is_pint(input) == \A i \in 1..Len(input) : input[i] \in Digits

\* std::stoi on a string of digits: the value, or StoiThrows when the string
\* is empty (std::invalid_argument) or the value exceeds INT_MAX
\* (std::out_of_range)
StoiThrows == 0 - 1

RECURSIVE stoi_from(_, _, _)
stoi_from(s, i, acc) ==
  IF i > Len(s) THEN acc
  ELSE LET dv == DigitVal[s[i]] IN
       IF acc > (INT_MAX - dv) \div 10 THEN StoiThrows
       ELSE stoi_from(s, i + 1, acc * 10 + dv)

stoi(s) == IF Len(s) = 0 THEN StoiThrows ELSE stoi_from(s, 1, 0)

is_port(port) ==
  IF port = STAR THEN "true"
  ELSE IF ~is_pint(port) THEN "false"
  ELSE LET p == stoi(port) IN
       IF p = StoiThrows THEN "throw"
       ELSE IF p > MAX_PORT \/ p < 0 THEN "false"
       ELSE "true"

RECURSIVE is_ip_loop(_, _)
is_ip_loop(parsed, i) ==
  IF i > Len(parsed) THEN "true"
  ELSE IF ~is_pint(parsed[i]) THEN "false"
  ELSE LET p == stoi(parsed[i]) IN
       IF p = StoiThrows THEN "throw"
       ELSE IF p > MAX_OCTET \/ p < 0 THEN "false"
       ELSE is_ip_loop(parsed, i + 1)

is_ip(ip) ==
  IF ip = STAR THEN "true"
  ELSE LET parsed == parse(ip, ".") IN
       IF Len(parsed) # 4 THEN "false"
       ELSE is_ip_loop(parsed, 1)

\* !is_ip(a) || !is_port(p): is_port is evaluated only when is_ip is true
ip_and_port(a, p) ==
  LET ipr == is_ip(a) IN
  IF ipr # "true" THEN ipr ELSE is_port(p)

\* is_valid without the test that rejects "*:*"
is_valid_any_wildcard(pair, is_value) ==
  LET parsed == parse(pair, ":") IN
  IF Len(parsed) # 2 THEN "false"
  ELSE IF is_value /\ (parsed[1] = STAR \/ parsed[2] = STAR) THEN "false"
  ELSE ip_and_port(parsed[1], parsed[2])

is_valid(pair, is_value) ==
  LET parsed == parse(pair, ":") IN
  IF Len(parsed) # 2 THEN "false"
  ELSE IF is_value /\ (parsed[1] = STAR \/ parsed[2] = STAR) THEN "false"
  ELSE IF parsed[1] = STAR /\ parsed[2] = STAR THEN "false"
  ELSE ip_and_port(parsed[1], parsed[2])

\* the parsed rule, the empty vector when the rule is rejected; thrown when
\* an exception leaves the validation
parse_entry(entry) ==
  LET parsed == parse(entry, ",") IN
  IF Len(parsed) # 2 THEN [thrown |-> FALSE, parsed |-> <<>>]
  ELSE LET src == is_valid(parsed[1], FALSE) IN
       IF src = "throw" THEN [thrown |-> TRUE, parsed |-> <<>>]
       ELSE IF src = "false" THEN [thrown |-> FALSE, parsed |-> <<>>]
       ELSE LET dst == is_valid(parsed[2], TRUE) IN
            IF dst = "throw" THEN [thrown |-> TRUE, parsed |-> <<>>]
            ELSE IF dst = "false" THEN [thrown |-> FALSE, parsed |-> <<>>]
            ELSE [thrown |-> FALSE, parsed |-> parsed]

(***************************************************************************)
(* The texts the driver feeds to the store.                                *)
(***************************************************************************)
Join(a, p) == a \o <<":">> \o p
Rule(s, d) == s \o <<",">> \o d

H1 == <<"1", "0", ".", "0", ".", "1", ".", "1">>
H2 == <<"1", "0", ".", "0", ".", "1", ".", "2">>
P1 == <<"8", "1">>
P2 == <<"8", "2">>
Hosts == {H1, H2}
Ports == {P1, P2}

\* sources a rule may name, "*:*" among them
SourceTexts == {Join(a, p) : a \in Hosts \cup {STAR}, p \in Ports \cup {STAR}}
DestTexts == {Join(H1, p) : p \in Ports}

BadAddrs ==
  { <<"1", ".", "0", ".", "1">>,
    <<"3", "0", "0", ".", "0", ".", "1", ".", "1">>,
    <<"1", ".", ".", "2", ".", "3">>,
    <<"1", "0", ".", "0", ".", "-", "1", ".", "1">>,
    <<"1", ".", "4", "2", "9", "4", "9", "6", "7", "2", "9", "6", ".", "0", ".", "1">> }
BadPorts ==
  { <<"p", "o", "r", "t">>,
    <<>>,
    <<"6", "5", "5", "3", "6">>,
    <<"4", "2", "9", "4", "9", "6", "7", "2", "9", "6">> }
BadEndpoints ==
  {Join(a, P1) : a \in BadAddrs}
    \cup {Join(H1, p) : p \in BadPorts}
    \cup {H1, Join(Join(H1, P1), P2)}
\* valid texts at the edges of the ranges
EdgeTexts ==
  { Join(<<"2", "5", "5", ".", "0", ".", "0", ".", "0">>, P1),
    Join(H1, <<"6", "5", "5", "3", "5">>),
    Join(H1, <<"0">>) }
BadDests ==
  { Join(STAR, P1), Join(H1, STAR), Join(H1, <<>>),
    Join(H1, <<"6", "5", "5", "3", "6">>), H1, Join(Join(H1, P1), P2) }

RuleTexts ==
  {Rule(s, d) : s \in SourceTexts, d \in DestTexts}
    \cup {Rule(e, Join(H1, P1)) : e \in BadEndpoints}
    \cup {Rule(Join(H1, P1), e) : e \in BadDests}
    \cup { Join(H1, P1),
           Rule(Rule(Join(H1, P1), Join(H1, P1)), Join(H1, P2)) }
QueryTexts == SourceTexts \cup EdgeTexts \cup BadEndpoints

\* what the out-of-bounds read of parsed[1] can yield
OobTexts == {STAR, <<>>, <<"x">>, P1}
NoRead == [fault |-> FALSE, text |-> <<>>]
OobReads ==
  {[fault |-> TRUE, text |-> <<>>]}
    \cup {[fault |-> FALSE, text |-> t] : t \in OobTexts}
\* the reads a call of translate on text can make out of bounds: none when
\* the text holds a ':'
OobReadsOf(text) == IF find(text, ":") = 0 THEN OobReads ELSE {NoRead}

(***************************************************************************)
(* The store.  dict is the unordered_map: a function from key to value.    *)
(***************************************************************************)
EmptyDictionary == [k \in {} |-> <<>>]

\* save2 as unordered_map::insert: an existing key keeps its value
save2_keep_first(dict, key, value) ==
  [k \in (DOMAIN dict) \cup {key} |->
     IF k \in DOMAIN dict THEN dict[k] ELSE value]

\* void save(string key, string value): dictionary[key] = value
save2(dict, key, value) ==
  [k \in (DOMAIN dict) \cup {key} |-> IF k = key THEN value ELSE dict[k]]

\* parse_entry on each rule text of the universe, computed once
parse_entry_of == [t \in RuleTexts |-> parse_entry(t)]

\* save that stores the two parts before it looks at the validation
save_store_first(dict, entry) ==
  LET pe == parse_entry_of[entry]
      raw == parse(entry, ",")
  IN
  IF pe.thrown THEN [status |-> THROWN, dict |-> dict]
  ELSE IF Len(raw) # 2 THEN [status |-> INVALID, dict |-> dict]
  ELSE IF pe.parsed = <<>>
       THEN [status |-> INVALID, dict |-> save2(dict, raw[1], raw[2])]
  ELSE [status |-> OK, dict |-> save2(dict, raw[1], raw[2])]

\* Status save(string entry)
save(dict, entry) ==
  LET pe == parse_entry_of[entry] IN
  IF pe.thrown THEN [status |-> THROWN, dict |-> dict]
  ELSE IF pe.parsed = <<>> THEN [status |-> INVALID, dict |-> dict]
  ELSE [status |-> OK, dict |-> save2(dict, pe.parsed[1], pe.parsed[2])]

\* lookup whose second key is built without the wildcard
lookup_no_port_wildcard(dict, key, p0, p1) ==
  IF key \in DOMAIN dict THEN [status |-> OK, value |-> dict[key]]
  ELSE LET key_port == p0 \o <<":">> \o p1 IN
       IF key_port \in DOMAIN dict
       THEN [status |-> OK, value |-> dict[key_port]]
       ELSE LET key_ip == <<"*", ":">> \o p1 IN
            IF key_ip \in DOMAIN dict
            THEN [status |-> OK, value |-> dict[key_ip]]
            ELSE [status |-> NO_MATCH, value |-> <<>>]

\* lookup that probes the wildcard keys before the exact key
lookup_wild_first(dict, key, p0, p1) ==
  LET key_port == p0 \o <<":", "*">>
      key_ip == <<"*", ":">> \o p1
  IN
  IF key_port \in DOMAIN dict THEN [status |-> OK, value |-> dict[key_port]]
  ELSE IF key_ip \in DOMAIN dict THEN [status |-> OK, value |-> dict[key_ip]]
  ELSE IF key \in DOMAIN dict THEN [status |-> OK, value |-> dict[key]]
  ELSE [status |-> NO_MATCH, value |-> <<>>]

\* lookup that probes "*:port" before "address:*"
lookup_ip_first(dict, key, p0, p1) ==
  IF key \in DOMAIN dict THEN [status |-> OK, value |-> dict[key]]
  ELSE LET key_ip == <<"*", ":">> \o p1 IN
       IF key_ip \in DOMAIN dict
       THEN [status |-> OK, value |-> dict[key_ip]]
       ELSE LET key_port == p0 \o <<":", "*">> IN
            IF key_port \in DOMAIN dict
            THEN [status |-> OK, value |-> dict[key_port]]
            ELSE [status |-> NO_MATCH, value |-> <<>>]

\* the three probes of translate, in the order of the code
lookup(dict, key, p0, p1) ==
  IF key \in DOMAIN dict THEN [status |-> OK, value |-> dict[key]]
  ELSE LET key_port == p0 \o <<":", "*">> IN
       IF key_port \in DOMAIN dict
       THEN [status |-> OK, value |-> dict[key_port]]
       ELSE LET key_ip == <<"*", ":">> \o p1 IN
            IF key_ip \in DOMAIN dict
            THEN [status |-> OK, value |-> dict[key_ip]]
            ELSE [status |-> NO_MATCH, value |-> <<>>]

\* Status translate(string key, string& value), called as the driver calls
\* it, with a fresh empty value.  parsed[1] of the code is read whatever the
\* size of parsed: when parsed has one element the read is out of bounds, and
\* oob is what it yields: a fault, or the text found there.
translate(dict, key, oob) ==
  LET parsed == parse(key, ":")
      p0 == parsed[1]
      ipr == is_ip(p0)
  IN
  IF ipr = "throw" THEN [status |-> THROWN, value |-> <<>>]
  ELSE IF ipr = "false" THEN [status |-> INVALID, value |-> <<>>]
  ELSE IF Len(parsed) < 2 /\ oob.fault THEN [status |-> FAULT, value |-> <<>>]
  ELSE LET p1 == IF Len(parsed) < 2 THEN oob.text ELSE parsed[2]
           ptr == is_port(p1)
       IN
       IF ptr = "throw" THEN [status |-> THROWN, value |-> <<>>]
       ELSE IF ptr = "false" THEN [status |-> INVALID, value |-> <<>>]
       ELSE IF p0 = STAR \/ p1 = STAR THEN [status |-> INVALID, value |-> <<>>]
       ELSE lookup(dict, key, p0, p1)

(***************************************************************************)
(* State.                                                                  *)
(***************************************************************************)
VARIABLES
  dictionary,  \* NATStore::dictionary
  last,        \* the last call: operation, argument, returned status, value
  before       \* history: dictionary as it was when the last call began

vars == <<dictionary, last, before>>

Running == last.status \in Status \cup {"NONE"}

Init ==
  /\ dictionary = EmptyDictionary
  /\ last = [op |-> "none", arg |-> <<>>, status |-> "NONE", value |-> <<>>]
  /\ before = EmptyDictionary

\* the driver's rule loop: nat.save(line)
DefineRule(text) ==
  /\ Running
  /\ LET r == save(dictionary, text) IN
     /\ Cardinality(DOMAIN r.dict) <= MaxEntries
     /\ dictionary' = r.dict
     /\ last' = [op |-> "save", arg |-> text, status |-> r.status,
                 value |-> <<>>]
  /\ before' = dictionary

\* the driver's query loop: nat.translate(line, value)
Translate(text, oob) ==
  /\ Running
  /\ LET r == translate(dictionary, text, oob) IN
     last' = [op |-> "translate", arg |-> text, status |-> r.status,
              value |-> r.value]
  /\ dictionary' = dictionary
  /\ before' = dictionary

Next ==
  \/ \E text \in RuleTexts : DefineRule(text)
  \/ \E text \in QueryTexts : \E oob \in OobReadsOf(text) : Translate(text, oob)

Spec == Init /\ [][Next]_vars

(***************************************************************************)
(* The textual grammar of endpoints, rules and queries, stated on the      *)
(* characters of a text and not through the tokenizer.                     *)
(***************************************************************************)
CountOf(text, c) == Cardinality({i \in 1..Len(text) : text[i] = c})
FirstAt(text, c) ==
  CHOOSE i \in 1..Len(text) :
    text[i] = c /\ \A j \in 1..(i - 1) : text[j] # c
Left(text, c) == SubSeq(text, 1, FirstAt(text, c) - 1)
Right(text, c) == SubSeq(text, FirstAt(text, c) + 1, Len(text))

IsNumeral(t) == Len(t) >= 1 /\ \A i \in 1..Len(t) : t[i] \in Digits
LeadingZeros(t) ==
  Cardinality({i \in 1..Len(t) : \A j \in 1..i : t[j] = "0"})
Significant(t) == SubSeq(t, LeadingZeros(t) + 1, Len(t))
RECURSIVE ValueOf(_)
ValueOf(u) ==
  IF u = <<>> THEN 0
  ELSE ValueOf(SubSeq(u, 1, Len(u) - 1)) * 10 + DigitVal[u[Len(u)]]
\* t is a decimal string representing a number of 0..max (max < 100000)
Represents(t, max) ==
  /\ IsNumeral(t)
  /\ Len(Significant(t)) <= 5
  /\ ValueOf(Significant(t)) <= max

GrammarAddr(a) ==
  \/ a = STAR
  \/ /\ CountOf(a, ".") = 3
     /\ \E i, j, k \in 1..Len(a) :
          /\ i < j /\ j < k
          /\ a[i] = "." /\ a[j] = "." /\ a[k] = "."
          /\ Represents(SubSeq(a, 1, i - 1), 255)
          /\ Represents(SubSeq(a, i + 1, j - 1), 255)
          /\ Represents(SubSeq(a, j + 1, k - 1), 255)
          /\ Represents(SubSeq(a, k + 1, Len(a)), 255)
GrammarPort(p) == p = STAR \/ Represents(p, 65535)

IsEndpoint(text) ==
  /\ CountOf(text, ":") = 1
  /\ GrammarAddr(Left(text, ":"))
  /\ GrammarPort(Right(text, ":"))
FullyWildcard(text) == text = <<"*", ":", "*">>
IsConcrete(text) ==
  /\ IsEndpoint(text)
  /\ Left(text, ":") # STAR
  /\ Right(text, ":") # STAR
IsRule(text) ==
  /\ CountOf(text, ",") = 1
  /\ IsEndpoint(Left(text, ","))
  /\ ~FullyWildcard(Left(text, ","))
  /\ IsConcrete(Right(text, ","))

\* the three candidate keys of a concrete query, in the order of precedence
Candidates(q) ==
  << q, Left(q, ":") \o <<":", "*">>, <<"*", ":">> \o Right(q, ":") >>
\* the outcome the precedence rule gives q on table dict
FirstMatch(dict, q) ==
  LET cands == Candidates(q)
      present == {i \in 1..3 : cands[i] \in DOMAIN dict}
  IN
  IF present = {}
  THEN [status |-> NO_MATCH, value |-> <<>>]
  ELSE [status |-> OK,
        value |-> dict[cands[CHOOSE i \in present : \A j \in present : i <= j]]]

Returned == [status |-> last.status, value |-> last.value]
AllReads == OobReads \cup {NoRead}

(***************************************************************************)
(* C1.  For every valid concrete query a:p, Translate returns OK with the  *)
(* destination stored under the first key present among a:p, a:*, *:p, and *)
(* NO_MATCH exactly when none of the three is stored.                      *)
(***************************************************************************)
C1_FirstMatchWins ==
  (last.op = "translate" /\ IsConcrete(last.arg))
    => /\ Returned = FirstMatch(dictionary, last.arg)
       /\ (last.status = NO_MATCH
             <=> \A i \in 1..3 : Candidates(last.arg)[i] \notin DOMAIN dictionary)

\* an exact rule and a wildcard rule with another destination both match
C1_Witness ==
  /\ last.op = "translate" /\ IsConcrete(last.arg)
  /\ last.status = OK
  /\ last.arg \in DOMAIN dictionary
  /\ \E i \in 2..3 :
       /\ Candidates(last.arg)[i] \in DOMAIN dictionary
       /\ dictionary[Candidates(last.arg)[i]] # dictionary[last.arg]

(***************************************************************************)
(* C2.  Translate returns INVALID for every query text that is not a fully *)
(* concrete valid endpoint (no colon, three or more fields, a wildcard, a  *)
(* field failing the numeric grammar), and returns no stored destination.  *)
(***************************************************************************)
C2_MalformedQueryInvalid ==
  (last.op = "translate" /\ ~IsConcrete(last.arg))
    => (last.status = INVALID /\ last.value = <<>>)

(***************************************************************************)
(* C3.  Every call of DefineRule or Translate returns one of OK, INVALID,  *)
(* NO_MATCH: no call aborts or raises.                                     *)
(***************************************************************************)
C3_AlwaysAnOutcome ==
  last.op \in {"save", "translate"} => last.status \in Status

(***************************************************************************)
(* C4.  After DefineRule("s,d") returned OK for a concrete s, Translate(s) *)
(* called right then returns (OK, d), whatever was defined before.         *)
(***************************************************************************)
C4_DefineThenTranslate ==
  (/\ last.op = "save" /\ last.status = OK
   /\ IsConcrete(Left(last.arg, ",")))
    => \A oob \in AllReads :
         translate(dictionary, Left(last.arg, ","), oob)
           = [status |-> OK, value |-> Right(last.arg, ",")]

\* the source was defined before with another destination, or a wildcard
\* rule with another destination covers it
C4_Witness ==
  /\ last.op = "save" /\ last.status = OK
  /\ IsConcrete(Left(last.arg, ","))
  /\ \E i \in 1..3 :
       LET k == Candidates(Left(last.arg, ","))[i] IN
       k \in DOMAIN before /\ before[k] # Right(last.arg, ",")

(***************************************************************************)
(* C5.  DefineRule returns OK exactly when the text is a rule of the       *)
(* grammar (two parts, a valid source that is not fully wildcard, a valid  *)
(* concrete destination), and INVALID in every other case.                 *)
(***************************************************************************)
C5_DefineRuleDecides ==
  last.op = "save"
    => \/ IsRule(last.arg) /\ last.status = OK
       \/ ~IsRule(last.arg) /\ last.status = INVALID

(***************************************************************************)
(* C6.  Every stored destination is a valid concrete endpoint, and every   *)
(* stored source key a valid endpoint that is not fully wildcard.          *)
(***************************************************************************)
C6_StoredRulesValid ==
  \A k \in DOMAIN dictionary :
    /\ IsEndpoint(k)
    /\ ~FullyWildcard(k)
    /\ IsConcrete(dictionary[k])

\* a wildcard source is stored, and a rule naming "*:*" or a wildcard
\* destination has just been offered
C6_Witness ==
  /\ \E k \in DOMAIN dictionary : ~IsConcrete(k)
  /\ last.op = "save"
  /\ CountOf(last.arg, ",") = 1
  /\ \/ FullyWildcard(Left(last.arg, ","))
     \/ /\ IsEndpoint(Right(last.arg, ","))
        /\ ~IsConcrete(Right(last.arg, ","))

(***************************************************************************)
(* C7.  When DefineRule returns INVALID the table is what it was before    *)
(* the call.                                                               *)
(***************************************************************************)
C7_InvalidLeavesTable ==
  (last.op = "save" /\ last.status = INVALID) => dictionary = before

\* a valid source, absent from the table or stored with another value, and
\* an invalid destination
C7_Witness ==
  /\ last.op = "save" /\ last.status = INVALID
  /\ CountOf(last.arg, ",") = 1
  /\ IsEndpoint(Left(last.arg, ","))
  /\ ~FullyWildcard(Left(last.arg, ","))
  /\ ~IsConcrete(Right(last.arg, ","))
  /\ before # EmptyDictionary

(***************************************************************************)
(* C8.  Defining a rule for a source that is already a key leaves one      *)
(* entry for that source, holding the new destination, which Translate on  *)
(* that source (when concrete) then returns; every other entry is          *)
(* unchanged.                                                              *)
(***************************************************************************)
C8_LastWriteWins ==
  (/\ last.op = "save" /\ last.status = OK
   /\ Left(last.arg, ",") \in DOMAIN before)
    => LET s == Left(last.arg, ",")
           d == Right(last.arg, ",")
       IN
       /\ DOMAIN dictionary = DOMAIN before
       /\ dictionary[s] = d
       /\ \A k \in DOMAIN before \ {s} : dictionary[k] = before[k]
       /\ IsConcrete(s)
            => translate(dictionary, s, NoRead) = [status |-> OK, value |-> d]

\* a concrete source redefined with another destination, next to another key
C8_Witness ==
  /\ last.op = "save" /\ last.status = OK
  /\ Left(last.arg, ",") \in DOMAIN before
  /\ IsConcrete(Left(last.arg, ","))
  /\ before[Left(last.arg, ",")] # Right(last.arg, ",")
  /\ DOMAIN before # {Left(last.arg, ",")}

(***************************************************************************)
(* C9.  Translate never changes the table, and a Translate that follows a  *)
(* Translate of the same query returns the same outcome and destination.   *)
(***************************************************************************)
C9_TranslateRepeats ==
  [][last'.op = "translate"
       => /\ dictionary' = dictionary
          /\ (last.op = "translate" /\ last'.arg = last.arg)
               => (last'.status = last.status /\ last'.value = last.value)]_vars

(***************************************************************************)
(* C10.  When a:* and *:p are both stored and a:p is not, Translate(a:p)   *)
(* returns the destination of a:*, whichever of the two was defined last.  *)
(***************************************************************************)
BothWildcardsOnly(dict, q) ==
  /\ IsConcrete(q)
  /\ Candidates(q)[1] \notin DOMAIN dict
  /\ Candidates(q)[2] \in DOMAIN dict
  /\ Candidates(q)[3] \in DOMAIN dict

C10_AddressRuleFirst ==
  /\ (last.op = "translate" /\ BothWildcardsOnly(dictionary, last.arg))
       => Returned = [status |-> OK,
                      value |-> dictionary[Candidates(last.arg)[2]]]
  /\ (last.op = "save" /\ last.status = OK)
       => \A q \in QueryTexts :
            BothWildcardsOnly(dictionary, q)
              => translate(dictionary, q, NoRead)
                   = [status |-> OK, value |-> dictionary[Candidates(q)[2]]]

\* the two wildcard rules hold different destinations
C10_Witness ==
  /\ last.op = "translate"
  /\ BothWildcardsOnly(dictionary, last.arg)
  /\ dictionary[Candidates(last.arg)[2]] # dictionary[Candidates(last.arg)[3]]

====
